---- MODULE Spec2Model ----
(***************************************************************************)
(* Model of nerfstudio/cameras/camera_optimizers.py: the CameraOptimizer   *)
(* (pose correction) and CameraVelocityOptimizer (velocity correction)     *)
(* layers.  One layer object is constructed (Init); every method of the    *)
(* layer is an action that records the call and what it returned or        *)
(* raised; the external optimizer updates the parameter tensors.           *)
(*                                                                         *)
(* Tensors of shape (n,3) are sequences of 3-tuples of integers, camera    *)
(* index i is position i+1.  A 3x4 transform is the record                 *)
(*   [rot |-> w, V |-> c, trans |-> t]                                     *)
(* standing for the rotation exp(w) and the translation V(c).t, where      *)
(* V(<<0,0,0>>) is the identity; exp and V are kept symbolic.              *)
(***************************************************************************)
EXTENDS Integers, Sequences, FiniteSets, TLC

VARIABLES layer, config, num_cameras, device, non_trainable_camera_indices,
          trans_adjustment, rot_adjustment,
          linear_velocity_adjustment, angular_velocity_adjustment,
          steps, call, ret

vars == <<layer, config, num_cameras, device, non_trainable_camera_indices,
          trans_adjustment, rot_adjustment,
          linear_velocity_adjustment, angular_velocity_adjustment,
          steps, call, ret>>

----------------------------------------------------------------------------
(* Bounds of the model *)

MaxCameras == 2

MaxLen == 2

MaxParam == 1

MaxSteps == 1

----------------------------------------------------------------------------
(* Configuration defaults, penalties in units of 1e-6 *)

trans_l2_penalty == 100

rot_l2_penalty == 1000

linear_l2_penalty == 1

angular_l2_penalty == 10

Modes == {"off", "SO3xR3", "SE3"}

Devices == {"cpu", "cuda"}

----------------------------------------------------------------------------
(* Tensor helpers *)

Zero3 == <<0, 0, 0>>

Zero6 == <<0, 0, 0, 0, 0, 0>>

\* torch.zeros((num_cameras, 3))
zeros(n) == [i \in 1..n |-> Zero3]

\* an attribute that was never assigned
Absent == <<>>

\* torch.eye(4)[:3, :4]
Identity3x4 == [rot |-> Zero3, V |-> Zero3, trans |-> Zero3]

\* a + b for tensors of the same length
VecAdd(a, b) == [k \in 1..Len(a) |-> a[k] + b[k]]

RECURSIVE SumSeq(_)
SumSeq(s) == IF s = <<>> THEN 0 ELSE Head(s) + SumSeq(Tail(s))

RECURSIVE MaxSeq(_)
MaxSeq(s) == IF Len(s) = 1 THEN s[1]
             ELSE LET m == MaxSeq(Tail(s)) IN IF s[1] >= m THEN s[1] ELSE m

\* floor of the square root
ISqrt(k) == CHOOSE r \in 0..(k + 1) : r * r <= k /\ (r + 1) * (r + 1) > k

\* tensor.norm(dim=-1): the L2 norm of every row, in fixed point (tenths)
norm(t) == [i \in 1..Len(t) |->
              ISqrt(100 * (t[i][1] * t[i][1] + t[i][2] * t[i][2] + t[i][3] * t[i][3]))]

\* tensor.mean() of a vector of fixed-point values, as an exact fraction
mean(ns) == [num |-> SumSeq(ns), den |-> 10 * Len(ns)]

\* a python dict: d[key] = v
DictSet(d, key, v) == [k \in (DOMAIN d) \cup {key} |-> IF k = key THEN v ELSE d[k]]

EmptyDict == [k \in {} |-> 0]

----------------------------------------------------------------------------
(* State after construction *)

NoneIndices == [none |-> TRUE, idx |-> {}, device |-> "none"]

\* the optional non_trainable_camera_indices argument for n cameras
\* (no camera, one camera, or every camera held out), on either device
IndexTensors(n) ==
    {NoneIndices} \cup
    {[none |-> FALSE, idx |-> s, device |-> d] :
        s \in {x \in SUBSET (0..(n - 1)) : Cardinality(x) <= 1 \/ x = 0..(n - 1)},
        d \in Devices}

InitPose ==
    /\ layer = "CameraOptimizer"
    /\ \E m \in Modes : config = [mode |-> m,
                                  trans_l2_penalty |-> trans_l2_penalty,
                                  rot_l2_penalty |-> rot_l2_penalty]
    /\ num_cameras \in 1..MaxCameras
    /\ device = "cuda"
    /\ non_trainable_camera_indices \in IndexTensors(num_cameras)
    /\ trans_adjustment = IF config.mode = "off" THEN Absent ELSE zeros(num_cameras)
    /\ rot_adjustment = IF config.mode = "off" THEN Absent ELSE zeros(num_cameras)
    /\ linear_velocity_adjustment = Absent
    /\ angular_velocity_adjustment = Absent

InitVelocity ==
    /\ layer = "CameraVelocityOptimizer"
    /\ \E e \in BOOLEAN, z \in BOOLEAN :
          config = [enabled |-> e, zero_initial_velocities |-> z,
                    linear_l2_penalty |-> linear_l2_penalty,
                    angular_l2_penalty |-> angular_l2_penalty]
    /\ num_cameras \in 1..MaxCameras
    /\ device = "cuda"
    /\ non_trainable_camera_indices \in
          {NoneIndices, [none |-> FALSE, idx |-> {0}, device |-> "cpu"]}
    /\ trans_adjustment = Absent
    /\ rot_adjustment = Absent
    /\ linear_velocity_adjustment = IF config.enabled THEN zeros(num_cameras) ELSE Absent
    /\ angular_velocity_adjustment = IF config.enabled THEN zeros(num_cameras) ELSE Absent

NoCall == [op |-> "__init__", arg |-> <<>>]

NoRet == [status |-> "none", value |-> <<>>, fwd |-> FALSE]

Init ==
    /\ InitPose \/ InitVelocity
    /\ steps = 0
    /\ call = NoCall
    /\ ret = NoRet

\* no method call is in progress: the layer is single-threaded and synchronous
Idle == call = NoCall

IsPose == Idle /\ layer = "CameraOptimizer"

IsVelocity == Idle /\ layer = "CameraVelocityOptimizer"

----------------------------------------------------------------------------
(* nerfstudio.cameras.lie_groups: the exponential maps *)

\* a tangent tensor: batched (b,6) or a single unbatched (6,) vector
\* torch.hstack([trans[indices, :], rot[indices, :]])
hstack_adjustments(t, r, indices) ==
    [batched |-> indices.dim = 1,
     rows |-> [k \in 1..Len(indices.vals) |->
                  t[indices.vals[k] + 1] \o r[indices.vals[k] + 1]]]

\* exp_map_SO3xR3 of one generator: rotation and translation independent
exp_SO3xR3_row(tv) ==
    [rot |-> SubSeq(tv, 4, 6), V |-> Zero3, trans |-> SubSeq(tv, 1, 3)]

\* exp_map_SE3 of one generator: the translation is V(rot).trans
exp_SE3_row(tv) ==
    LET t == SubSeq(tv, 1, 3)
        w == SubSeq(tv, 4, 6)
    IN  IF w = Zero3 \/ t = Zero3
        THEN [rot |-> w, V |-> Zero3, trans |-> t]
        ELSE [rot |-> w, V |-> w, trans |-> t]

\* both maps slice tangent_vector[:, 3:], which needs a (b,6) tensor
exp_map(mode, tangent) ==
    IF ~tangent.batched
    THEN [status |-> "IndexError", value |-> <<>>]
    ELSE [status |-> "ok",
          value |-> [k \in 1..Len(tangent.rows) |->
                        IF mode = "SO3xR3" THEN exp_SO3xR3_row(tangent.rows[k])
                        ELSE exp_SE3_row(tangent.rows[k])]]

----------------------------------------------------------------------------
(* CameraOptimizer *)

\* an index tensor of shape (n,)
Indices1d(s) == [dim |-> 1, vals |-> s]

\* an index tensor of shape (), as squeeze() leaves a one-element tensor
Indices0d(i) == [dim |-> 0, vals |-> <<i>>]

\* torch.arange(0, n).long()
arange(n) == Indices1d([k \in 1..n |-> k - 1])

\* the learned-delta stage of forward: the list outputs after lines 145-155
forward_outputs(indices) ==
    IF config.mode = "off"
    THEN [status |-> "ok", outputs |-> <<>>]
    ELSE LET e == exp_map(config.mode,
                          hstack_adjustments(trans_adjustment, rot_adjustment, indices))
         IN  IF e.status = "ok"
             THEN [status |-> "ok", outputs |-> <<e.value>>]
             ELSE [status |-> e.status, outputs |-> <<>>]

\* outputs[0][non_trainable_camera_indices] = eye: rows addressed by position
set_identity_rows(rows, nt) ==
    [k \in 1..Len(rows) |-> IF (k - 1) \in nt.idx THEN Identity3x4 ELSE rows[k]]

\* mutant: the relocated index tensor is lost instead of stored
to_parameter_device_lost(nt) ==
    IF nt.device # device THEN NoneIndices ELSE nt

\* lines 158-159: the index tensor is moved to the device of the parameters
to_parameter_device(nt) ==
    IF nt.device # device THEN [nt EXCEPT !.device = device] ELSE nt

\* the return statement of forward
forward_return(outputs, indices) ==
    IF Len(outputs) = 0
    THEN IF indices.dim = 0
         THEN [status |-> "IndexError", value |-> <<>>]
         ELSE [status |-> "ok", value |-> [k \in 1..Len(indices.vals) |-> Identity3x4]]
    ELSE [status |-> "ok", value |-> outputs[1]]

\* CameraOptimizer.forward: [status, value, nt] where nt is the value of
\* self.non_trainable_camera_indices when the call ends
forward(indices) ==
    LET nt == non_trainable_camera_indices
        st == forward_outputs(indices)
    IN  IF st.status # "ok"
        THEN [status |-> st.status, value |-> <<>>, nt |-> nt]
        ELSE IF nt.none
        THEN LET r == forward_return(st.outputs, indices)
             IN  [status |-> r.status, value |-> r.value, nt |-> nt]
        ELSE IF trans_adjustment = Absent
        THEN [status |-> "AttributeError", value |-> <<>>, nt |-> nt]
        ELSE LET nt2 == to_parameter_device(nt)
             IN  IF \E m \in nt2.idx : m >= Len(st.outputs[1])
                 THEN [status |-> "IndexError", value |-> <<>>, nt |-> nt2]
                 ELSE LET r == forward_return(<<set_identity_rows(st.outputs[1], nt2)>>,
                                              indices)
                      IN  [status |-> r.status, value |-> r.value, nt |-> nt2]

\* index sequences of length 0..MaxLen over the cameras of the layer
IndexSeqs == UNION {[1..n -> 0..(num_cameras - 1)] : n \in 0..MaxLen}

UnchangedParams ==
    UNCHANGED <<trans_adjustment, rot_adjustment,
                linear_velocity_adjustment, angular_velocity_adjustment>>

UnchangedConfig == UNCHANGED <<layer, config, num_cameras, device, steps>>

Call_forward ==
    /\ IsPose
    /\ \E s \in IndexSeqs :
          LET r == forward(Indices1d(s))
          IN  /\ call' = [op |-> "forward", arg |-> s]
              /\ ret' = [status |-> r.status, value |-> r.value, fwd |-> TRUE]
              /\ non_trainable_camera_indices' = r.nt
    /\ UnchangedParams
    /\ UnchangedConfig

\* CameraOptimizer.get_correction_matrices
get_correction_matrices == forward(arange(num_cameras))

Call_get_correction_matrices ==
    /\ IsPose
    /\ LET r == get_correction_matrices
       IN  /\ call' = [op |-> "get_correction_matrices", arg |-> <<>>]
           /\ ret' = [status |-> r.status, value |-> r.value, fwd |-> TRUE]
           /\ non_trainable_camera_indices' = r.nt
    /\ UnchangedParams
    /\ UnchangedConfig

\* a ray origin o + V(c).t and a ray direction exp(R).d
Point(o) == [p |-> o, V |-> Zero3, t |-> Zero3]

Direction(d) == [R |-> Zero3, d |-> d]

\* origins + correction_matrices[:, :3, 3]
add_translation(o, T) ==
    IF T.V = Zero3
    THEN [p |-> VecAdd(o.p, T.trans), V |-> Zero3, t |-> Zero3]
    ELSE [p |-> o.p, V |-> T.V, t |-> T.trans]

\* torch.bmm(correction_matrices[:, :3, :3], directions[..., None])
rotate(T, d) == [R |-> T.rot, d |-> d.d]

\* raybundle.camera_indices.squeeze(): (n,1) becomes (n,), and (1,1) becomes ()
squeeze(camera_indices) ==
    IF Len(camera_indices) = 1 THEN Indices0d(camera_indices[1])
    ELSE Indices1d(camera_indices)

\* CameraOptimizer.apply_to_raybundle: value is the bundle after the call
apply_to_raybundle(raybundle) ==
    IF config.mode # "off"
    THEN LET r == forward(squeeze(raybundle.camera_indices))
         IN  IF r.status # "ok"
             THEN [status |-> r.status, value |-> raybundle, nt |-> r.nt, fwd |-> TRUE]
             ELSE [status |-> "ok",
                   value |-> [raybundle EXCEPT
                       !.origins = [k \in 1..Len(raybundle.origins) |->
                                       add_translation(raybundle.origins[k], r.value[k])],
                       !.directions = [k \in 1..Len(raybundle.directions) |->
                                       rotate(r.value[k], raybundle.directions[k])]],
                   nt |-> r.nt, fwd |-> TRUE]
    ELSE [status |-> "ok", value |-> raybundle,
          nt |-> non_trainable_camera_indices, fwd |-> FALSE]

\* ray bundles of 1..MaxLen rays; ray k starts at <<k,0,k>> and looks along <<0,k,1>>
RayBundles ==
    {[origins |-> [k \in 1..Len(s) |-> Point(<<k, 0, k>>)],
      directions |-> [k \in 1..Len(s) |-> Direction(<<0, k, 1>>)],
      camera_indices |-> s] : s \in IndexSeqs \ {<<>>}}

Call_apply_to_raybundle ==
    /\ IsPose
    /\ \E rb \in RayBundles :
          LET r == apply_to_raybundle(rb)
          IN  /\ call' = [op |-> "apply_to_raybundle", arg |-> rb]
              /\ ret' = [status |-> r.status, value |-> r.value, fwd |-> r.fwd]
              /\ non_trainable_camera_indices' = r.nt
    /\ UnchangedParams
    /\ UnchangedConfig

\* camera.metadata: None, a dict without "cam_idx", or a dict holding it
Metadatas ==
    {[none |-> TRUE, keys |-> {}, cam_idx |-> 0],
     [none |-> FALSE, keys |-> {}, cam_idx |-> 0],
     [none |-> FALSE, keys |-> {"directions_norm"}, cam_idx |-> 0]}
    \cup {[none |-> FALSE, keys |-> {"cam_idx"}, cam_idx |-> i] : i \in 0..(num_cameras - 1)}

NoVelocities == [none |-> TRUE, v |-> Zero6]

\* Cameras objects: the pose is the opaque matrix "c2w"
Cameras(velocities) ==
    {[metadata |-> m, camera_to_worlds |-> "c2w", velocities |-> v] :
        m \in Metadatas, v \in velocities}

\* mutant: the metadata test of apply_to_camera is missing
apply_to_camera_unchecked(camera) ==
    LET nt == non_trainable_camera_indices
        asis == [c2w |-> camera.camera_to_worlds, composed |-> FALSE,
                 adj |-> [top |-> Identity3x4, bottom |-> <<0, 0, 0, 1>>]]
    IN  IF config.mode = "off"
        THEN [status |-> "ok", value |-> asis, nt |-> nt, fwd |-> FALSE]
        ELSE LET r == forward(Indices1d(<<camera.metadata.cam_idx>>))
             IN  IF r.status # "ok"
                 THEN [status |-> r.status, value |-> <<>>, nt |-> r.nt, fwd |-> TRUE]
                 ELSE [status |-> "ok",
                       value |-> [c2w |-> camera.camera_to_worlds, composed |-> TRUE,
                                  adj |-> [top |-> r.value[1], bottom |-> <<0, 0, 0, 1>>]],
                       nt |-> r.nt, fwd |-> TRUE]

\* CameraOptimizer.apply_to_camera: value.composed tells camera_to_worlds . adj
\* from camera_to_worlds as it was
apply_to_camera(camera) ==
    LET nt == non_trainable_camera_indices
        asis == [c2w |-> camera.camera_to_worlds, composed |-> FALSE,
                 adj |-> [top |-> Identity3x4, bottom |-> <<0, 0, 0, 1>>]]
    IN  IF config.mode = "off"
        THEN [status |-> "ok", value |-> asis, nt |-> nt, fwd |-> FALSE]
        ELSE IF camera.metadata.none \/ "cam_idx" \notin camera.metadata.keys
        THEN [status |-> "ok", value |-> asis, nt |-> nt, fwd |-> FALSE]
        ELSE LET r == forward(Indices1d(<<camera.metadata.cam_idx>>))
             IN  IF r.status # "ok"
                 THEN [status |-> r.status, value |-> <<>>, nt |-> r.nt, fwd |-> TRUE]
                 ELSE [status |-> "ok",
                       value |-> [c2w |-> camera.camera_to_worlds, composed |-> TRUE,
                                  adj |-> [top |-> r.value[1], bottom |-> <<0, 0, 0, 1>>]],
                       nt |-> r.nt, fwd |-> TRUE]

Call_apply_to_camera ==
    /\ IsPose
    /\ \E camera \in Cameras({NoVelocities}) :
          LET r == apply_to_camera(camera)
          IN  /\ call' = [op |-> "apply_to_camera", arg |-> camera]
              /\ ret' = [status |-> r.status, value |-> r.value, fwd |-> r.fwd]
              /\ non_trainable_camera_indices' = r.nt
    /\ UnchangedParams
    /\ UnchangedConfig

\* exact fractions for the scalars of the loss and metrics dicts
frac_add(a, b) == [num |-> a.num * b.den + b.num * a.den, den |-> a.den * b.den]

frac_scale(a, k) == [num |-> a.num * k, den |-> a.den]

\* mutant: the second tensor's term is dropped
regularizer_first_only(a, pa, b, pb) ==
    frac_add(frac_scale(mean(norm(a)), pa), frac_scale(mean(norm(a)), pb))

\* a.norm(dim=-1).mean() * pa + b.norm(dim=-1).mean() * pb
regularizer(a, pa, b, pb) ==
    frac_add(frac_scale(mean(norm(a)), pa), frac_scale(mean(norm(b)), pb))

\* CameraOptimizer.get_loss_dict: the dict after the call
get_loss_dict(loss_dict) ==
    IF config.mode # "off"
    THEN DictSet(loss_dict, "camera_opt_regularizer",
                 regularizer(trans_adjustment, config.trans_l2_penalty,
                             rot_adjustment, config.rot_l2_penalty))
    ELSE loss_dict

\* the loss dicts a caller passes: empty, or holding another loss
LossDicts == {EmptyDict, [k \in {"rgb_loss"} |-> [num |-> 1, den |-> 2]]}

UnchangedLayer ==
    /\ UnchangedParams
    /\ UnchangedConfig
    /\ UNCHANGED non_trainable_camera_indices

Call_get_loss_dict ==
    /\ IsPose
    /\ \E d \in LossDicts :
          /\ call' = [op |-> "get_loss_dict", arg |-> d]
          /\ ret' = [status |-> "ok", value |-> get_loss_dict(d), fwd |-> FALSE]
    /\ UnchangedLayer

\* numpy.rad2deg, with pi taken as 355/113
rad2deg(x) == [num |-> x.num * 180 * 113, den |-> x.den * 355]

\* tensor.max() of a vector of fixed-point values
max(ns) == [num |-> MaxSeq(ns), den |-> 10]

\* CameraOptimizer.get_metrics_dict: the dict after the call
get_metrics_dict(metrics_dict) ==
    IF config.mode # "off"
    THEN LET trans == norm(trans_adjustment)
             rot == norm(rot_adjustment)
             d1 == DictSet(metrics_dict, "camera_opt_translation_max", max(trans))
             d2 == DictSet(d1, "camera_opt_translation_mean", mean(trans))
             d3 == DictSet(d2, "camera_opt_rotation_mean", rad2deg(mean(rot)))
         IN  DictSet(d3, "camera_opt_rotation_max", rad2deg(max(rot)))
    ELSE metrics_dict

Call_get_metrics_dict ==
    /\ IsPose
    /\ call' = [op |-> "get_metrics_dict", arg |-> EmptyDict]
    /\ ret' = [status |-> "ok", value |-> get_metrics_dict(EmptyDict), fwd |-> FALSE]
    /\ UnchangedLayer

\* one registered torch.nn.Parameter, if the attribute was assigned
registered(name, data) ==
    IF data = Absent THEN <<>> ELSE <<[name |-> name, data |-> data]>>

\* list(self.parameters()): the registered parameters in registration order
parameters ==
    registered("trans_adjustment", trans_adjustment)
    \o registered("rot_adjustment", rot_adjustment)
    \o registered("linear_velocity_adjustment", linear_velocity_adjustment)
    \o registered("angular_velocity_adjustment", angular_velocity_adjustment)

\* params[:1] and params[1:]
first_slice(ps) == SubSeq(ps, 1, IF Len(ps) < 1 THEN Len(ps) ELSE 1)

\* mutant: params[0:] in place of params[1:]
rest_slice_all(ps) == ps

rest_slice(ps) == SubSeq(ps, 2, Len(ps))

\* CameraOptimizer.get_param_groups: [status, value] with the dict after the call
get_param_groups(param_groups) ==
    LET camera_opt_params == parameters
    IN  IF config.mode # "off"
        THEN IF ~(Len(camera_opt_params) > 0)
             THEN [status |-> "AssertionError", value |-> param_groups]
             ELSE [status |-> "ok",
                   value |-> DictSet(DictSet(param_groups, "camera_opt_trans",
                                             first_slice(camera_opt_params)),
                                     "camera_opt_rot", rest_slice(camera_opt_params))]
        ELSE IF ~(Len(camera_opt_params) = 0)
             THEN [status |-> "AssertionError", value |-> param_groups]
             ELSE [status |-> "ok", value |-> param_groups]

\* the param_groups dicts a caller passes: empty, or holding another group
ParamGroups ==
    {EmptyDict, [k \in {"fields"} |-> <<[name |-> "field.weight", data |-> <<Zero3>>]>>]}

Call_get_param_groups ==
    /\ IsPose
    /\ \E g \in ParamGroups :
          LET r == get_param_groups(g)
          IN  /\ call' = [op |-> "get_param_groups", arg |-> g]
              /\ ret' = [status |-> r.status, value |-> r.value, fwd |-> FALSE]
    /\ UnchangedLayer

----------------------------------------------------------------------------
(* CameraVelocityOptimizer *)

\* stored camera velocities: missing, or a 6-vector
Velocities == {NoVelocities, [none |-> FALSE, v |-> <<1, 2, 3, 4, 5, 6>>]}

\* mutant: the base is zeroed only by the config flag, not for unindexed cameras
apply_to_camera_velocity_stored_base(camera) ==
    LET no_meta == camera.metadata.none \/ "cam_idx" \notin camera.metadata.keys
        zeroed == config.zero_initial_velocities
        init_velocities == IF zeroed THEN Zero6 ELSE camera.velocities.v
    IN  IF ~zeroed /\ camera.velocities.none
        THEN [status |-> "AssertionError", value |-> <<>>]
        ELSE IF ~config.enabled
        THEN [status |-> "ok", value |-> init_velocities]
        ELSE IF no_meta
        THEN [status |-> "ok", value |-> init_velocities]
        ELSE LET camera_idx == camera.metadata.cam_idx
                 adj == linear_velocity_adjustment[camera_idx + 1]
                        \o angular_velocity_adjustment[camera_idx + 1]
             IN  [status |-> "ok", value |-> VecAdd(init_velocities, adj)]

\* mutant: the stored velocity is asserted before the base is chosen
apply_to_camera_velocity_assert_first(camera) ==
    LET no_meta == camera.metadata.none \/ "cam_idx" \notin camera.metadata.keys
        zeroed == config.zero_initial_velocities \/ no_meta
        init_velocities == IF zeroed THEN Zero6 ELSE camera.velocities.v
    IN  IF camera.velocities.none
        THEN [status |-> "AssertionError", value |-> <<>>]
        ELSE IF ~config.enabled
        THEN [status |-> "ok", value |-> init_velocities]
        ELSE IF no_meta
        THEN [status |-> "ok", value |-> init_velocities]
        ELSE LET camera_idx == camera.metadata.cam_idx
                 adj == linear_velocity_adjustment[camera_idx + 1]
                        \o angular_velocity_adjustment[camera_idx + 1]
             IN  [status |-> "ok", value |-> VecAdd(init_velocities, adj)]

\* CameraVelocityOptimizer.apply_to_camera_velocity
apply_to_camera_velocity(camera) ==
    LET no_meta == camera.metadata.none \/ "cam_idx" \notin camera.metadata.keys
        zeroed == config.zero_initial_velocities \/ no_meta
        init_velocities == IF zeroed THEN Zero6 ELSE camera.velocities.v
    IN  IF ~zeroed /\ camera.velocities.none
        THEN [status |-> "AssertionError", value |-> <<>>]
        ELSE IF ~config.enabled
        THEN [status |-> "ok", value |-> init_velocities]
        ELSE IF no_meta
        THEN [status |-> "ok", value |-> init_velocities]
        ELSE LET camera_idx == camera.metadata.cam_idx
                 adj == linear_velocity_adjustment[camera_idx + 1]
                        \o angular_velocity_adjustment[camera_idx + 1]
             IN  [status |-> "ok", value |-> VecAdd(init_velocities, adj)]

Call_apply_to_camera_velocity ==
    /\ IsVelocity
    /\ \E camera \in Cameras(Velocities) :
          LET r == apply_to_camera_velocity(camera)
          IN  /\ call' = [op |-> "apply_to_camera_velocity", arg |-> camera]
              /\ ret' = [status |-> r.status, value |-> r.value, fwd |-> FALSE]
    /\ UnchangedLayer

\* CameraVelocityOptimizer.get_loss_dict
velocity_get_loss_dict(loss_dict) ==
    IF config.enabled
    THEN DictSet(loss_dict, "camera_velocity_regularizer",
                 regularizer(linear_velocity_adjustment, config.linear_l2_penalty,
                             angular_velocity_adjustment, config.angular_l2_penalty))
    ELSE loss_dict

Call_velocity_get_loss_dict ==
    /\ IsVelocity
    /\ \E d \in LossDicts :
          /\ call' = [op |-> "get_loss_dict", arg |-> d]
          /\ ret' = [status |-> "ok", value |-> velocity_get_loss_dict(d), fwd |-> FALSE]
    /\ UnchangedLayer

\* CameraVelocityOptimizer.get_metrics_dict
velocity_get_metrics_dict(metrics_dict) ==
    IF config.enabled
    THEN LET lin == norm(linear_velocity_adjustment)
             ang == norm(angular_velocity_adjustment)
             d1 == DictSet(metrics_dict, "camera_opt_vel_max", max(lin))
             d2 == DictSet(d1, "camera_opt_vel_mean", mean(lin))
             d3 == DictSet(d2, "camera_opt_ang_vel_max", max(ang))
         IN  DictSet(d3, "camera_opt_ang_vel_mean", mean(ang))
    ELSE metrics_dict

Call_velocity_get_metrics_dict ==
    /\ IsVelocity
    /\ call' = [op |-> "get_metrics_dict", arg |-> EmptyDict]
    /\ ret' = [status |-> "ok", value |-> velocity_get_metrics_dict(EmptyDict),
               fwd |-> FALSE]
    /\ UnchangedLayer

\* CameraVelocityOptimizer.get_param_groups
velocity_get_param_groups(param_groups) ==
    LET vel_opt_params == parameters
    IN  IF config.enabled
        THEN IF ~(Len(vel_opt_params) > 0)
             THEN [status |-> "AssertionError", value |-> param_groups]
             ELSE [status |-> "ok",
                   value |-> DictSet(DictSet(param_groups, "camera_velocity_opt_linear",
                                             first_slice(vel_opt_params)),
                                     "camera_velocity_opt_angular",
                                     rest_slice(vel_opt_params))]
        ELSE IF ~(Len(vel_opt_params) = 0)
             THEN [status |-> "AssertionError", value |-> param_groups]
             ELSE [status |-> "ok", value |-> param_groups]

Call_velocity_get_param_groups ==
    /\ IsVelocity
    /\ \E g \in ParamGroups :
          LET r == velocity_get_param_groups(g)
          IN  /\ call' = [op |-> "get_param_groups", arg |-> g]
              /\ ret' = [status |-> r.status, value |-> r.value, fwd |-> FALSE]
    /\ UnchangedLayer

----------------------------------------------------------------------------
(* The external optimizer: a gradient step moves one component of one     *)
(* camera's row of one parameter tensor by one unit.                       *)

step_tensor(t, i, c, d) == [t EXCEPT ![i][c] = t[i][c] + d]

CanStep(t, i, c, d) ==
    /\ t # Absent
    /\ t[i][c] + d \in (0 - MaxParam)..MaxParam

OptimizerStep ==
    /\ Idle
    /\ steps < MaxSteps
    /\ \E i \in 1..num_cameras, c \in 1..3, d \in {-1, 1} :
          \/ /\ CanStep(trans_adjustment, i, c, d)
             /\ trans_adjustment' = step_tensor(trans_adjustment, i, c, d)
             /\ UNCHANGED <<rot_adjustment, linear_velocity_adjustment,
                            angular_velocity_adjustment>>
          \/ /\ CanStep(rot_adjustment, i, c, d)
             /\ rot_adjustment' = step_tensor(rot_adjustment, i, c, d)
             /\ UNCHANGED <<trans_adjustment, linear_velocity_adjustment,
                            angular_velocity_adjustment>>
          \/ /\ CanStep(linear_velocity_adjustment, i, c, d)
             /\ linear_velocity_adjustment' = step_tensor(linear_velocity_adjustment, i, c, d)
             /\ UNCHANGED <<trans_adjustment, rot_adjustment,
                            angular_velocity_adjustment>>
          \/ /\ CanStep(angular_velocity_adjustment, i, c, d)
             /\ angular_velocity_adjustment' = step_tensor(angular_velocity_adjustment, i, c, d)
             /\ UNCHANGED <<trans_adjustment, rot_adjustment,
                            linear_velocity_adjustment>>
    /\ steps' = steps + 1
    /\ UNCHANGED <<layer, config, num_cameras, device, non_trainable_camera_indices,
                   call, ret>>

\* the caller takes the result (or the exception) of the call in progress
Return ==
    /\ ~Idle
    /\ call' = NoCall
    /\ ret' = NoRet
    /\ UnchangedLayer

Next ==
    \/ Call_forward
    \/ Call_get_correction_matrices
    \/ Call_apply_to_raybundle
    \/ Call_apply_to_camera
    \/ Call_get_loss_dict
    \/ Call_get_metrics_dict
    \/ Call_get_param_groups
    \/ Call_apply_to_camera_velocity
    \/ Call_velocity_get_loss_dict
    \/ Call_velocity_get_metrics_dict
    \/ Call_velocity_get_param_groups
    \/ OptimizerStep
    \/ Return

Spec == Init /\ [][Next]_vars

----------------------------------------------------------------------------
(* Properties *)

Op(name) == call.op = name

\* the learned correction of camera i: the exponential map of its generators
LearnedCorrection(i) ==
    IF config.mode = "SO3xR3"
    THEN exp_SO3xR3_row(trans_adjustment[i + 1] \o rot_adjustment[i + 1])
    ELSE exp_SE3_row(trans_adjustment[i + 1] \o rot_adjustment[i + 1])

\* the correction of camera i with the non-trainable mask keyed by camera index
CorrectionOfCamera(i) ==
    IF i \in non_trainable_camera_indices.idx THEN Identity3x4 ELSE LearnedCorrection(i)

AllZero(t) == \A i \in 1..Len(t) : t[i] = Zero3

Indexed(camera) == ~camera.metadata.none /\ "cam_idx" \in camera.metadata.keys

LayerActive == IF layer = "CameraOptimizer" THEN config.mode # "off" ELSE config.enabled

\* C1: in mode SO3xR3 or SE3 evaluate completes and row k of its output is the
\* identity when indices[k] is a non-trainable camera and the learned correction
\* of camera indices[k] otherwise (the override is keyed by camera index).
C1_OverrideKeyedByCameraIndex ==
    (Op("forward") /\ config.mode # "off") =>
        /\ ret.status = "ok"
        /\ Len(ret.value) = Len(call.arg)
        /\ \A k \in 1..Len(call.arg) : ret.value[k] = CorrectionOfCamera(call.arg[k])

\* C2: in mode off evaluate returns, without error and whatever the layer was
\* constructed with, one exact identity transform per index.
C2_OffReturnsIdentity ==
    (Op("forward") /\ config.mode = "off") =>
        /\ ret.status = "ok"
        /\ Len(ret.value) = Len(call.arg)
        /\ \A k \in 1..Len(call.arg) : ret.value[k] = Identity3x4

\* C3: get_correction_matrices returns num_cameras transforms, and for every
\* camera i the call evaluate([i]) completes and returns the i-th of them.
C3_BulkEqualsSingle ==
    Op("get_correction_matrices") =>
        /\ ret.status = "ok"
        /\ Len(ret.value) = num_cameras
        /\ \A i \in 0..(num_cameras - 1) :
              LET single == forward(Indices1d(<<i>>))
              IN  /\ single.status = "ok"
                  /\ Len(single.value) = 1
                  /\ single.value[1] = ret.value[i + 1]

\* the base velocity of the velocity layer for a camera
BaseVelocity(camera) ==
    IF config.zero_initial_velocities \/ ~Indexed(camera) THEN Zero6
    ELSE camera.velocities.v

\* C4: apply_to_camera_velocity returns base + (linear[idx] || angular[idx]) if
\* and only if the layer is enabled and the camera carries an index, and the base
\* unchanged otherwise; the base is zero when zero_initial_velocities is set or
\* the camera has no index, and the stored velocity otherwise.
C4_VelocityAdjustment ==
    (Op("apply_to_camera_velocity") /\ ret.status = "ok") =>
        LET camera == call.arg
        IN  IF config.enabled /\ Indexed(camera)
            THEN ret.value =
                   VecAdd(BaseVelocity(camera),
                          linear_velocity_adjustment[camera.metadata.cam_idx + 1]
                          \o angular_velocity_adjustment[camera.metadata.cam_idx + 1])
            ELSE ret.value = BaseVelocity(camera)

C4_Witness ==
    /\ Op("apply_to_camera_velocity")
    /\ ret.status = "ok"
    /\ config.enabled
    /\ ~config.zero_initial_velocities
    /\ Indexed(call.arg)
    /\ ret.value # call.arg.velocities.v

\* C5: apply_to_camera_velocity fails with an assertion exactly when
\* zero_initial_velocities is false, the camera carries an index and its stored
\* velocity is missing, whatever the enabled flag; no other call fails.
C5_AssertionExactlyWhenBaseMissing ==
    Op("apply_to_camera_velocity") =>
        LET camera == call.arg
            required == ~config.zero_initial_velocities /\ Indexed(camera)
        IN  /\ ret.status \in {"ok", "AssertionError"}
            /\ ret.status = "AssertionError" <=> (required /\ camera.velocities.none)

C5_Witness ==
    /\ Op("apply_to_camera_velocity")
    /\ ret.status = "AssertionError"
    /\ config.enabled

\* the two group names get_param_groups writes, and the parameter each holds
GroupKeys ==
    IF layer = "CameraOptimizer"
    THEN <<"camera_opt_trans", "camera_opt_rot">>
    ELSE <<"camera_velocity_opt_linear", "camera_velocity_opt_angular">>

GroupParams ==
    IF layer = "CameraOptimizer"
    THEN <<"trans_adjustment", "rot_adjustment">>
    ELSE <<"linear_velocity_adjustment", "angular_velocity_adjustment">>

\* C6: get_param_groups of either layer succeeds; when the layer is off/disabled
\* it sees no parameter and adds no group; otherwise it adds exactly two groups,
\* each holding exactly one (num_cameras,3) tensor, translation/linear first and
\* rotation/angular second; the caller's other entries are unchanged.
C6_ParamGroups ==
    Op("get_param_groups") =>
        /\ ret.status = "ok"
        /\ IF ~LayerActive
           THEN ret.value = call.arg /\ Len(parameters) = 0
           ELSE /\ DOMAIN ret.value = (DOMAIN call.arg) \cup {GroupKeys[1], GroupKeys[2]}
                /\ \A j \in 1..2 :
                      /\ GroupKeys[j] \notin DOMAIN call.arg
                      /\ Len(ret.value[GroupKeys[j]]) = 1
                      /\ ret.value[GroupKeys[j]][1].name = GroupParams[j]
                      /\ Len(ret.value[GroupKeys[j]][1].data) = num_cameras
                /\ \A k \in DOMAIN call.arg : ret.value[k] = call.arg[k]

C6_Witness ==
    /\ Op("get_param_groups")
    /\ LayerActive
    /\ DOMAIN call.arg # {}
    /\ steps > 0

\* C7: apply_to_camera returns the camera's pose as it was, without evaluating a
\* correction and without changing the layer, whenever mode is off or the camera
\* has no metadata or no index; a correction is composed only when mode is not
\* off and the camera carries an index.
C7_UnindexedCameraUntouched ==
    [][(call'.op = "apply_to_camera") =>
          LET camera == call'.arg
          IN  /\ (config.mode = "off" \/ ~Indexed(camera)) =>
                    /\ ret'.status = "ok"
                    /\ ~ret'.value.composed
                    /\ ret'.value.c2w = camera.camera_to_worlds
                    /\ ~ret'.fwd
                    /\ UNCHANGED <<layer, config, num_cameras, device,
                                   non_trainable_camera_indices, trans_adjustment,
                                   rot_adjustment, steps>>
              /\ (ret'.status = "ok" /\ ret'.value.composed) =>
                    (config.mode # "off" /\ Indexed(camera))
              /\ (ret'.status = "ok" /\ config.mode # "off" /\ Indexed(camera)) =>
                    ret'.value.composed]_vars

C7_Witness ==
    /\ Op("apply_to_camera")
    /\ config.mode # "off"
    /\ ~call.arg.metadata.none
    /\ ~Indexed(call.arg)
    /\ ~AllZero(rot_adjustment)
    /\ ~non_trainable_camera_indices.none
    /\ non_trainable_camera_indices.device # device
    /\ ret.status = "ok"

\* the key get_loss_dict writes and the tensors and weights it reads
LossKey ==
    IF layer = "CameraOptimizer" THEN "camera_opt_regularizer"
    ELSE "camera_velocity_regularizer"

LossTensors ==
    IF layer = "CameraOptimizer" THEN <<trans_adjustment, rot_adjustment>>
    ELSE <<linear_velocity_adjustment, angular_velocity_adjustment>>

LossWeights ==
    IF layer = "CameraOptimizer"
    THEN <<config.trans_l2_penalty, config.rot_l2_penalty>>
    ELSE <<config.linear_l2_penalty, config.angular_l2_penalty>>

\* C8: with positive penalty weights and the layer not off/disabled,
\* get_loss_dict writes under its key a value that is zero when every parameter
\* is zero and strictly positive when any component of any camera is non-zero;
\* when the layer is off/disabled the dict is left as it was.
C8_RegularizerSign ==
    Op("get_loss_dict") =>
        IF ~LayerActive
        THEN ret.value = call.arg
        ELSE (LossWeights[1] > 0 /\ LossWeights[2] > 0) =>
               /\ DOMAIN ret.value = (DOMAIN call.arg) \cup {LossKey}
               /\ ret.value[LossKey].den > 0
               /\ (AllZero(LossTensors[1]) /\ AllZero(LossTensors[2]))
                     => ret.value[LossKey].num = 0
               /\ (~AllZero(LossTensors[1]) \/ ~AllZero(LossTensors[2]))
                     => ret.value[LossKey].num > 0
               /\ \A k \in DOMAIN call.arg : ret.value[k] = call.arg[k]

C8_Witness ==
    /\ Op("get_loss_dict")
    /\ LayerActive
    /\ AllZero(LossTensors[1])
    /\ ~AllZero(LossTensors[2])
    /\ ret.value[LossKey].num > 0

\* C9: in mode not off apply_to_raybundle completes for every bundle of one or
\* more rays, and for each ray r the new origin is the old origin plus the
\* translation of the correction of camera camera_indices[r] and the new
\* direction is that correction's rotation applied to the old direction; the
\* number of rays and camera_indices are unchanged.
C9_RayBundleCorrected ==
    (Op("apply_to_raybundle") /\ config.mode # "off") =>
        LET old == call.arg
            new == ret.value
        IN  /\ ret.status = "ok"
            /\ new.camera_indices = old.camera_indices
            /\ Len(new.origins) = Len(old.origins)
            /\ Len(new.directions) = Len(old.directions)
            /\ \A r \in 1..Len(old.camera_indices) :
                  LET T == CorrectionOfCamera(old.camera_indices[r])
                  IN  /\ new.origins[r] = add_translation(old.origins[r], T)
                      /\ new.directions[r] = rotate(T, old.directions[r])

\* C10 as stated: every layer operation leaves the mode/enabled flag, the
\* parameter values and the non-trainable mask (the attribute as stored) as they
\* were; only the external optimizer changes the layer.
C10_LayerStateReadOnly ==
    [][steps' = steps =>
          UNCHANGED <<layer, config, num_cameras, device, non_trainable_camera_indices,
                      trans_adjustment, rot_adjustment,
                      linear_velocity_adjustment, angular_velocity_adjustment>>]_vars

\* C10 amended: every layer operation leaves the mode/enabled flag, the
\* parameter values, and the presence and the index values of the
\* non-trainable mask as they were; evaluate may only move the stored mask to
\* the parameters' device.
C10_LayerStateKept ==
    [][steps' = steps =>
          /\ UNCHANGED <<layer, config, num_cameras, device,
                         trans_adjustment, rot_adjustment,
                         linear_velocity_adjustment, angular_velocity_adjustment>>
          /\ non_trainable_camera_indices'.none = non_trainable_camera_indices.none
          /\ non_trainable_camera_indices'.idx = non_trainable_camera_indices.idx
          /\ non_trainable_camera_indices'.device
                \in {non_trainable_camera_indices.device, device}]_vars

C10_Witness ==
    /\ Op("forward")
    /\ ret.status = "ok"
    /\ Len(call.arg) > 0
    /\ ~non_trainable_camera_indices.none
    /\ non_trainable_camera_indices.idx # {}
    /\ non_trainable_camera_indices.device = device
    /\ ~AllZero(trans_adjustment)
====
